---- MODULE Spec2Model ----
(***************************************************************************)
(* A model of native_client/alphabet.cc: the line reader                   *)
(* getline_crossplatform, Alphabet::init, Alphabet::Serialize,             *)
(* Alphabet::Deserialize, the lookup and conversion operations and the     *)
(* UTF8Alphabet overrides.                                                 *)
(*                                                                         *)
(* A std::string is a sequence of bytes (0..255).  A table (an Alphabet    *)
(* object) is a record of its four members; the two unordered_maps are     *)
(* functions whose DOMAIN is the key set.                                  *)
(***************************************************************************)
EXTENDS Integers, Sequences, FiniteSets, TLC

VARIABLES
  in,      \* the std::ifstream of Alphabet::init: buf, pos, eofbit, failbit
  T,       \* the Alphabet object Alphabet::init builds
  tstate,  \* "none" | "loop" (inside init's for loop) | "built" | "openfail"
  label,   \* init's local `label`
  lines,   \* the lines for which getline_crossplatform returned a true stream
  cfg,     \* the config file init was given: logical lines, terminator, last line terminated
  D,       \* the Alphabet object Alphabet::Deserialize fills
  dstate,  \* "none" | "ok" (returned 0) | "failed" (returned 1)
  wire,    \* the buffer handed to Deserialize and what it declares
  call     \* the last call made: operation, arguments and result

vars == <<in, T, tstate, label, lines, cfg, D, dstate, wire, call>>

(***************************************************************************)
(* Bounds of the model.                                                    *)
(***************************************************************************)
MaxLines == 2      \* logical lines in a config file
MaxRecs == 2       \* records in a hand-made buffer
MaxTokens == 2     \* tokens concatenated into a text for Encode

(***************************************************************************)
(* Program constants.                                                      *)
(***************************************************************************)
LF == 10
CR == 13
Hash == 35
Backslash == 92
SpaceChar == 32
SpaceSentinel == -2
U16 == 65536
SizeofU16 == 2

UInt16(x) == x % U16

\* (char)c appended to a std::string: indexing past the end of a std::string
\* yields the terminating '\0'.
CharAt(s, i) == IF i < Len(s) THEN s[i + 1] ELSE 0

Put(f, k, v) == [x \in (DOMAIN f) \cup {k} |-> IF x = k THEN v ELSE f[x]]

EmptyMap == [x \in {} |-> 0]

(***************************************************************************)
(* utf8_to_codepoint, is_unicode_space                                     *)
(***************************************************************************)
utf8_to_codepoint(cp) ==
  LET len == Len(cp)
      s0 == CharAt(cp, 0)
      s1 == CharAt(cp, 1)
      s2 == CharAt(cp, 2)
      s3 == CharAt(cp, 3)
  IN  IF len = 0 THEN 0
      ELSE IF s0 < 128 THEN s0
      ELSE IF s0 >= 192 /\ s0 < 224 /\ len >= 2
        THEN (s0 % 32) * 64 + (s1 % 64)
      ELSE IF s0 >= 224 /\ s0 < 240 /\ len >= 3
        THEN ((s0 % 16) * 64 + (s1 % 64)) * 64 + (s2 % 64)
      ELSE IF s0 >= 240 /\ s0 < 248 /\ len >= 4
        THEN (((s0 % 8) * 64 + (s1 % 64)) * 64 + (s2 % 64)) * 64 + (s3 % 64)
      ELSE 0

spaces_AsciiOnly == {9, 10, 11, 12, 13, 32}

spaces ==
  {9, 10, 11, 12, 13,
   32, 133, 160, 5760,
   8192, 8193, 8194, 8195, 8196, 8197,
   8198, 8199, 8200, 8201, 8202,
   8232, 8233, 8239, 8287, 12288}

is_unicode_space(cp) == utf8_to_codepoint(cp) \in spaces

(***************************************************************************)
(* split_into_codepoints (ctcdecode/decoder_utils): text to the ordered    *)
(* sequence of its single-codepoint substrings, 1 to 4 bytes each, chosen  *)
(* by the lead byte.                                                       *)
(***************************************************************************)
CodepointLen(b) ==
  IF b < 192 THEN 1 ELSE IF b < 224 THEN 2 ELSE IF b < 240 THEN 3 ELSE 4

Min(a, b) == IF a < b THEN a ELSE b

RECURSIVE split_into_codepoints(_)
split_into_codepoints(str) ==
  IF Len(str) = 0 THEN <<>>
  ELSE LET n == Min(CodepointLen(str[1]), Len(str))
       IN  <<SubSeq(str, 1, n)>> \o split_into_codepoints(SubSeq(str, n + 1, Len(str)))

(***************************************************************************)
(* getline_crossplatform.  The stream is [buf, pos, eofbit, failbit]; pos  *)
(* is the streambuf's get position.  The sentry sets failbit when the      *)
(* stream is not good(); the loop then reads the streambuf all the same.   *)
(* The result is the stream after the call and the string t.               *)
(***************************************************************************)
Good(is) == ~is.eofbit /\ ~is.failbit

\* operator bool of the stream: !fail()
StreamTrue(is) == ~is.failbit

Sentry(is) == IF Good(is) THEN is ELSE [is EXCEPT !.failbit = TRUE]

\* sbumpc / sgetc at position p: the byte, or -1 for traits_type::eof()
Sgetc(is, p) == IF p < Len(is.buf) THEN is.buf[p + 1] ELSE -1

\* case '\r': one more sbumpc when the next byte is '\n'
AfterCR_NoSwallow(is, p) == p

AfterCR(is, p) == IF Sgetc(is, p) = LF THEN p + 1 ELSE p

RECURSIVE GetlineLoop(_, _, _)
GetlineLoop(is, p, t) ==
  LET c == Sgetc(is, p)
  IN  IF c = LF THEN [is |-> [is EXCEPT !.pos = p + 1], t |-> t]
      ELSE IF c = CR THEN [is |-> [is EXCEPT !.pos = AfterCR(is, p + 1)], t |-> t]
      ELSE IF c = -1
        THEN [is |-> [is EXCEPT !.pos = p,
                                !.eofbit = IF t = <<>> THEN TRUE ELSE is.eofbit],
              t |-> t]
      ELSE GetlineLoop(is, p + 1, Append(t, c))

getline_crossplatform(is) == GetlineLoop(Sentry(is), is.pos, <<>>)

(***************************************************************************)
(* An Alphabet object.  alphabet.h gives the scalar members no             *)
(* initializer: a newly created object holds two empty maps and            *)
(* indeterminate size_ and space_label_, here any one of Indeterminate.    *)
(***************************************************************************)
Indeterminate == {[size |-> 0, space |-> SpaceSentinel], [size |-> 9, space |-> 0]}

NewAlphabet(u) ==
  [size_ |-> u.size, space_label_ |-> u.space,
   label_to_str_ |-> EmptyMap, str_to_label_ |-> EmptyMap]

(***************************************************************************)
(* Alphabet::init                                                          *)
(***************************************************************************)
OpenStream(content) == [buf |-> content, pos |-> 0, eofbit |-> FALSE, failbit |-> FALSE]

\* lines 92-93: label = 0; space_label_ = -2
InitPrologue(a) == [a EXCEPT !.space_label_ = SpaceSentinel]

IsEscapedHash(line) ==
  Len(line) = 2 /\ CharAt(line, 0) = Backslash /\ CharAt(line, 1) = Hash

\* the body of the for loop, lines 95-109: the table and label after one line
InitBody_KeepEmpty(a, lbl, line0) ==
  LET line == IF IsEscapedHash(line0) THEN <<Hash>> ELSE line0
      cps == split_into_codepoints(line)
      a1 == IF Len(cps) = 1 /\ is_unicode_space(cps[1])
              THEN [a EXCEPT !.space_label_ = lbl] ELSE a
  IN  IF ~IsEscapedHash(line0) /\ CharAt(line0, 0) = Hash
        THEN [a |-> a, label |-> lbl]
      ELSE [a |-> [a1 EXCEPT !.label_to_str_ = Put(a1.label_to_str_, lbl, line),
                             !.str_to_label_ = Put(a1.str_to_label_, line, lbl)],
            label |-> lbl + 1]

InitBody(a, lbl, line0) ==
  LET line == IF IsEscapedHash(line0) THEN <<Hash>> ELSE line0
      cps == split_into_codepoints(line)
      a1 == IF Len(cps) = 1 /\ is_unicode_space(cps[1])
              THEN [a EXCEPT !.space_label_ = lbl] ELSE a
  IN  IF ~IsEscapedHash(line0) /\ CharAt(line0, 0) = Hash
        THEN [a |-> a, label |-> lbl]
      ELSE IF Len(line) = 0
        THEN [a |-> a1, label |-> lbl]
      ELSE [a |-> [a1 EXCEPT !.label_to_str_ = Put(a1.label_to_str_, lbl, line),
                             !.str_to_label_ = Put(a1.str_to_label_, line, lbl)],
            label |-> lbl + 1]

\* line 111: size_ = label
InitEpilogue(a, lbl) == [a EXCEPT !.size_ = lbl]

\* the whole of init on an opened stream: the for loop run to its end
RECURSIVE InitRun(_, _, _, _)
InitRun(is, a, lbl, got) ==
  LET r == getline_crossplatform(is)
  IN  IF StreamTrue(r.is)
        THEN LET b == InitBody(a, lbl, r.t)
             IN  InitRun(r.is, b.a, b.label, Append(got, r.t))
      ELSE [a |-> InitEpilogue(a, lbl), lines |-> got]

Alphabet_init(a, content) == InitRun(OpenStream(content), InitPrologue(a), 0, <<>>)

(***************************************************************************)
(* Alphabet::Serialize.  uint16_t values are written in the byte order of  *)
(* the wire format (low byte first).  The pairs come in the iteration      *)
(* order of the unordered_map, which is any order of its keys.             *)
(***************************************************************************)
WriteU16(x) == <<UInt16(x) % 256, UInt16(x) \div 256>>

MapOrders(f) ==
  {o \in [1..Cardinality(DOMAIN f) -> DOMAIN f] : \A i, j \in DOMAIN o : o[i] = o[j] => i = j}

RECURSIVE SerializePairs(_, _)
SerializePairs(a, order) ==
  IF order = <<>> THEN <<>>
  ELSE LET key == order[1]
           str == a.label_to_str_[key]
           len == UInt16(Len(str))
       IN  WriteU16(key) \o WriteU16(len) \o SubSeq(str, 1, len)
             \o SerializePairs(a, Tail(order))

Serialize(a, order) == WriteU16(a.size_) \o SerializePairs(a, order)

(***************************************************************************)
(* Alphabet::Deserialize.  buffer is the memory behind the pointer,        *)
(* buffer_size the length the caller passes.  oob records whether a byte   *)
(* at an index >= buffer_size was read.                                    *)
(***************************************************************************)
\* a byte of the memory; past the modelled memory the byte read is 0
ByteAt(buffer, i) == IF i < Len(buffer) THEN buffer[i + 1] ELSE 0

ReadU16(buffer, offset) == ByteAt(buffer, offset) + 256 * ByteAt(buffer, offset + 1)

RECURSIVE ReadBytes(_, _, _)
ReadBytes(buffer, offset, n) ==
  IF n = 0 THEN <<>> ELSE <<ByteAt(buffer, offset)>> \o ReadBytes(buffer, offset + 1, n - 1)

\* `buffer_size - offset < sizeof(uint16_t)`: the int difference is converted
\* to size_t, so a negative difference compares as a huge value
ShortOfU16(buffer_size, offset) ==
  LET d == buffer_size - offset IN IF d < 0 THEN FALSE ELSE d < SizeofU16

\* `buffer_size - offset < val_len`: an int comparison
ShortOfVal_Unchecked(buffer_size, offset, val_len) == FALSE

ShortOfVal(buffer_size, offset, val_len) == buffer_size - offset < val_len

\* lines 173-178
DeserializeInsert(a, lbl, val) ==
  [a EXCEPT !.label_to_str_ = Put(a.label_to_str_, lbl, val),
            !.str_to_label_ = Put(a.str_to_label_, val, lbl),
            !.space_label_ = IF val = <<SpaceChar>> THEN lbl ELSE a.space_label_]

\* lines 154-179, from iteration i on
RECURSIVE DeserializeLoop(_, _, _, _, _, _, _)
DeserializeLoop(buffer, buffer_size, size, i, offset, a, oob) ==
  IF ~(i < size) THEN [ret |-> 0, a |-> a, oob |-> oob]
  ELSE IF ShortOfU16(buffer_size, offset) THEN [ret |-> 1, a |-> a, oob |-> oob]
  ELSE
    LET lbl == ReadU16(buffer, offset)
        oob1 == oob \/ offset + 1 >= buffer_size
        off1 == offset + SizeofU16
    IN  IF ShortOfU16(buffer_size, off1) THEN [ret |-> 1, a |-> a, oob |-> oob1]
        ELSE
          LET val_len == ReadU16(buffer, off1)
              oob2 == oob1 \/ off1 + 1 >= buffer_size
              off2 == off1 + SizeofU16
          IN  IF ShortOfVal(buffer_size, off2, val_len)
                THEN [ret |-> 1, a |-> a, oob |-> oob2]
              ELSE
                LET val == ReadBytes(buffer, off2, val_len)
                    oob3 == oob2 \/ (val_len > 0 /\ off2 + val_len > buffer_size)
                IN  DeserializeLoop(buffer, buffer_size, size, i + 1, off2 + val_len,
                                    DeserializeInsert(a, lbl, val), oob3)

\* lines 150-152: size_ = size
DeserializeHeader_KeepSize(a, size) == a

DeserializeHeader(a, size) == [a EXCEPT !.size_ = size]

Deserialize(a, buffer, buffer_size) ==
  IF ShortOfU16(buffer_size, 0) THEN [ret |-> 1, a |-> a, oob |-> FALSE]
  ELSE LET size == ReadU16(buffer, 0)
       IN  DeserializeLoop(buffer, buffer_size, size, 0, SizeofU16,
                           DeserializeHeader(a, size), 1 >= buffer_size)

(***************************************************************************)
(* Lookup and conversion.  A result is [aborted, ...]: aborted is the      *)
(* abort() of DecodeSingle / EncodeSingle.                                 *)
(***************************************************************************)
CanEncodeSingle(a, input) == input \in DOMAIN a.str_to_label_

CanEncode(a, input) ==
  LET cps == split_into_codepoints(input)
  IN  \A i \in DOMAIN cps : CanEncodeSingle(a, cps[i])

DecodeSingle(a, lbl) ==
  IF lbl \in DOMAIN a.label_to_str_
    THEN [aborted |-> FALSE, str |-> a.label_to_str_[lbl]]
  ELSE [aborted |-> TRUE, str |-> <<>>]

EncodeSingle(a, string) ==
  IF string \in DOMAIN a.str_to_label_
    THEN [aborted |-> FALSE, label |-> a.str_to_label_[string]]
  ELSE [aborted |-> TRUE, label |-> 0]

RECURSIVE Decode(_, _)
Decode(a, input) ==
  IF input = <<>> THEN [aborted |-> FALSE, word |-> <<>>]
  ELSE LET d == DecodeSingle(a, input[1])
       IN  IF d.aborted THEN [aborted |-> TRUE, word |-> <<>>]
           ELSE LET rest == Decode(a, Tail(input))
                IN  [aborted |-> rest.aborted,
                     word |-> IF rest.aborted THEN <<>> ELSE d.str \o rest.word]

\* the loop of Encode over the tokens `toks` the text was cut into
RECURSIVE EncodeEach(_, _)
EncodeEach(a, toks) ==
  IF toks = <<>> THEN [aborted |-> FALSE, labels |-> <<>>]
  ELSE LET e == EncodeSingle(a, toks[1])
       IN  IF e.aborted THEN [aborted |-> TRUE, labels |-> <<>>]
           ELSE LET rest == EncodeEach(a, Tail(toks))
                IN  [aborted |-> rest.aborted,
                     labels |-> IF rest.aborted THEN <<>> ELSE <<e.label>> \o rest.labels]

Encode(a, input) == EncodeEach(a, split_into_codepoints(input))

(***************************************************************************)
(* UTF8Alphabet                                                            *)
(***************************************************************************)
UTF8CanEncodeSingle(a, input) == TRUE

UTF8CanEncode(a, input) == TRUE

UTF8Encode(a, input) == EncodeEach(a, [i \in DOMAIN input |-> <<input[i]>>])

(***************************************************************************)
(* Inputs.  A config file is a sequence of logical lines (none holds CR or *)
(* LF), one terminator convention, and whether the last line has its       *)
(* terminator.  The lines: empty, "a", "ab", " ", tab, U+00A0, U+00E9,     *)
(* "#a", "\#", two spaces, U+3000, U+1F600.                                *)
(***************************************************************************)
LineSet ==
  { <<>>, <<97>>, <<97, 98>>, <<32>>, <<9>>, <<194, 160>>, <<195, 169>>,
    <<35, 97>>, <<92, 35>>, <<32, 32>>, <<227, 128, 128>>, <<240, 159, 152, 128>> }

Newlines == {"LF", "CR", "CRLF"}

Terminator(nl) ==
  CASE nl = "LF" -> <<LF>>
    [] nl = "CR" -> <<CR>>
    [] nl = "CRLF" -> <<CR, LF>>

RECURSIVE SeqsUpTo(_, _)
SeqsUpTo(S, n) ==
  IF n = 0 THEN {<<>>}
  ELSE LET shorter == SeqsUpTo(S, n - 1)
       IN  shorter \cup {Append(q, x) : q \in shorter, x \in S}

Configs ==
  [lines : SeqsUpTo(LineSet, MaxLines), nl : Newlines, lastTerminated : BOOLEAN]

NoCfg == [lines |-> <<>>, nl |-> "none", lastTerminated |-> TRUE]

\* the bytes of the file
RECURSIVE FileContentFrom(_, _)
FileContentFrom(c, i) ==
  IF i > Len(c.lines) THEN <<>>
  ELSE c.lines[i]
         \o (IF i < Len(c.lines) \/ c.lastTerminated THEN Terminator(c.nl) ELSE <<>>)
         \o FileContentFrom(c, i + 1)

FileContent(c) == FileContentFrom(c, 1)

\* hand-made buffers: a header count and records of the wire format
RecordSet == [label : {0, 1}, token : {<<>>, <<97>>, <<32>>, <<97, 98>>}]

RECURSIVE WriteRecords(_)
WriteRecords(recs) ==
  IF recs = <<>> THEN <<>>
  ELSE WriteU16(recs[1].label) \o WriteU16(Len(recs[1].token)) \o recs[1].token
         \o WriteRecords(Tail(recs))

\* texts handed to Encode: a few fixed ones and the concatenations of tokens
\* of the table
RECURSIVE Concats(_, _)
Concats(S, n) ==
  IF n = 0 THEN {<<>>}
  ELSE LET shorter == Concats(S, n - 1)
       IN  shorter \cup {t \o x : t \in shorter, x \in S}

FixedTexts == { <<97>>, <<98, 97>>, <<195, 169>>, <<97, 0>> }

Texts(a) == FixedTexts \cup Concats(DOMAIN a.str_to_label_, MaxTokens)

LabelSeqs == { <<0>>, <<1, 0>>, <<2>> }

(***************************************************************************)
(* The state machine.                                                      *)
(***************************************************************************)
NoCall ==
  [op |-> "none", obj |-> "none", text |-> <<>>, labels |-> <<>>, word |-> <<>>,
   ret |-> 0, can |-> FALSE, aborted |-> FALSE, inverts |-> "none"]

NoWire == [buf |-> <<>>, buffer_size |-> 0, declared |-> 0, oob |-> FALSE, distinct |-> TRUE]

ClosedStream == OpenStream(<<>>)

Placeholder == NewAlphabet([size |-> 0, space |-> 0])

Init ==
  /\ in = ClosedStream
  /\ T = Placeholder
  /\ tstate = "none"
  /\ label = 0
  /\ lines = <<>>
  /\ cfg = NoCfg
  /\ D = Placeholder
  /\ dstate = "none"
  /\ wire = NoWire
  /\ call = NoCall

Alive == ~call.aborted

\* init's stream and locals exist only while init runs and until the next call
InitFrameGone ==
  /\ in' = ClosedStream
  /\ label' = 0
  /\ lines' = <<>>
  /\ cfg' = NoCfg

\* Alphabet T; T.init(config_file) with a file that cannot be opened
InitOpenFail ==
  /\ tstate = "none" /\ dstate = "none"
  /\ \E u \in Indeterminate : T' = NewAlphabet(u)
  /\ tstate' = "openfail"
  /\ call' = [NoCall EXCEPT !.op = "init", !.obj = "T", !.ret = 1]
  /\ UNCHANGED <<in, label, lines, cfg, D, dstate, wire>>

\* Alphabet T; T.init(config_file), up to the for loop
InitOpen ==
  /\ tstate = "none" /\ dstate = "none"
  /\ \E c \in Configs, u \in Indeterminate :
       /\ cfg' = c
       /\ in' = OpenStream(FileContent(c))
       /\ T' = InitPrologue(NewAlphabet(u))
  /\ label' = 0
  /\ lines' = <<>>
  /\ tstate' = "loop"
  /\ call' = [NoCall EXCEPT !.op = "init", !.obj = "T"]
  /\ UNCHANGED <<D, dstate, wire>>

\* one evaluation of the for loop's condition, then its body or the epilogue
InitStep ==
  /\ tstate = "loop"
  /\ LET r == getline_crossplatform(in)
     IN  /\ in' = r.is
         /\ IF StreamTrue(r.is)
              THEN LET b == InitBody(T, label, r.t)
                   IN  /\ T' = b.a
                       /\ label' = b.label
                       /\ lines' = Append(lines, r.t)
                       /\ tstate' = "loop"
                       /\ call' = call
            ELSE /\ T' = InitEpilogue(T, label)
                 /\ tstate' = "built"
                 /\ call' = [call EXCEPT !.ret = 0]
                 /\ UNCHANGED <<label, lines>>
  /\ UNCHANGED <<cfg, D, dstate, wire>>

\* Serialize and the queries are const: they change no table, so a call made
\* after a query reaches nothing that the same call made before it does not
\* reach, and the model makes them straight after a construction call (Decode
\* also straight after the Encode it inverts).
AfterConstruction == call.op \in {"init", "Serialize", "Deserialize"}

\* T.Serialize()
SerializeCall ==
  /\ tstate = "built" /\ dstate = "none" /\ Alive /\ AfterConstruction
  /\ \E order \in MapOrders(T.label_to_str_) :
       call' = [NoCall EXCEPT !.op = "Serialize", !.obj = "T", !.text = Serialize(T, order)]
  /\ InitFrameGone
  /\ UNCHANGED <<T, tstate, D, dstate, wire>>

\* Alphabet D; D.Deserialize(buffer, buffer_size)
DeserializeCall(buffer, buffer_size, declared, distinct) ==
  \E u \in Indeterminate :
    LET r == Deserialize(NewAlphabet(u), buffer, buffer_size)
    IN  /\ D' = r.a
        /\ dstate' = IF r.ret = 0 THEN "ok" ELSE "failed"
        /\ wire' = [buf |-> buffer, buffer_size |-> buffer_size, declared |-> declared,
                    oob |-> r.oob, distinct |-> distinct]
        /\ call' = [NoCall EXCEPT !.op = "Deserialize", !.obj = "D", !.ret = r.ret]

\* the bytes Serialize returned, whole or cut short
DeserializeSerialized ==
  /\ call.op = "Serialize" /\ dstate = "none"
  /\ \E n \in 0..Len(call.text) : DeserializeCall(call.text, n, Len(call.text), TRUE)
  /\ UNCHANGED <<in, T, tstate, label, lines, cfg>>

DistinctLabels(recs, count) ==
  \A i, j \in 1..Min(count, Len(recs)) : recs[i].label = recs[j].label => i = j

\* a hand-made buffer: count may be less than, equal to or one more than the
\* number of records that follow
DeserializeCrafted ==
  /\ tstate = "none" /\ dstate = "none"
  /\ \E recs \in SeqsUpTo(RecordSet, MaxRecs) :
       \E count \in 0..(Len(recs) + 1) :
         LET buf == WriteU16(count) \o WriteRecords(recs)
             declared == IF count <= Len(recs)
                           THEN SizeofU16 + Len(WriteRecords(SubSeq(recs, 1, count)))
                         ELSE Len(buf) + 1
         IN  \E n \in 0..Len(buf) :
               DeserializeCall(buf, n, declared, DistinctLabels(recs, count))
  /\ UNCHANGED <<in, T, tstate, label, lines, cfg>>

\* the tables a query may be made on
Queryable == {o \in {"T", "D"} :
                \/ o = "T" /\ tstate = "built" /\ dstate = "none"
                \/ o = "D" /\ dstate = "ok" /\ tstate = "none"}

Table(o) == IF o = "T" THEN T ELSE D

Query(c) ==
  /\ call' = c
  /\ wire' = NoWire
  /\ InitFrameGone
  /\ UNCHANGED <<T, tstate, D, dstate>>

CanEncodeCall ==
  /\ Alive /\ AfterConstruction
  /\ \E o \in Queryable : \E text \in Texts(Table(o)) :
       Query([NoCall EXCEPT !.op = "CanEncode", !.obj = o, !.text = text,
                            !.can = CanEncode(Table(o), text)])

EncodeCall ==
  /\ Alive /\ AfterConstruction
  /\ \E o \in Queryable : \E text \in Texts(Table(o)) :
       LET e == Encode(Table(o), text)
       IN  Query([NoCall EXCEPT !.op = "Encode", !.obj = o, !.text = text,
                                !.labels = e.labels, !.aborted = e.aborted])

\* Decode of the labels the last Encode returned, or of given labels
DecodeCall ==
  /\ Alive
  /\ \E o \in Queryable :
       \/ /\ call.op \in {"Encode", "UTF8Encode"} /\ call.obj = o
          /\ LET d == Decode(Table(o), call.labels)
             IN  Query([NoCall EXCEPT !.op = "Decode", !.obj = o, !.text = call.text,
                                      !.labels = call.labels, !.word = d.word,
                                      !.aborted = d.aborted, !.inverts = call.op])
       \/ /\ AfterConstruction
          /\ \E ls \in LabelSeqs :
            LET d == Decode(Table(o), ls)
            IN  Query([NoCall EXCEPT !.op = "Decode", !.obj = o, !.labels = ls,
                                     !.word = d.word, !.aborted = d.aborted])

UTF8CanEncodeCall ==
  /\ Alive /\ AfterConstruction
  /\ \E o \in Queryable : \E text \in Texts(Table(o)) :
       Query([NoCall EXCEPT !.op = "UTF8CanEncode", !.obj = o, !.text = text,
                            !.can = UTF8CanEncode(Table(o), text)
                                      /\ \A i \in DOMAIN text :
                                           UTF8CanEncodeSingle(Table(o), <<text[i]>>)])

UTF8EncodeCall ==
  /\ Alive /\ AfterConstruction
  /\ \E o \in Queryable : \E text \in Texts(Table(o)) :
       LET e == UTF8Encode(Table(o), text)
       IN  Query([NoCall EXCEPT !.op = "UTF8Encode", !.obj = o, !.text = text,
                                !.labels = e.labels, !.aborted = e.aborted])

Next ==
  \/ InitOpenFail
  \/ InitOpen
  \/ InitStep
  \/ SerializeCall
  \/ DeserializeSerialized
  \/ DeserializeCrafted
  \/ CanEncodeCall
  \/ EncodeCall
  \/ DecodeCall
  \/ UTF8CanEncodeCall
  \/ UTF8EncodeCall

Spec == Init /\ [][Next]_vars

(***************************************************************************)
(* What the properties are stated against.                                 *)
(***************************************************************************)
\* init has just returned 0: its stream, locals and file are still in view
InitReturned == tstate = "built" /\ call.op = "init"

\* the tokens the config format gives a sequence of lines, in line order:
\* empty lines and comments (first character '#') dropped, the line \# read
\* as the token #
RECURSIVE KeptTokens(_)
KeptTokens(ls) ==
  IF ls = <<>> THEN <<>>
  ELSE LET l == ls[1]
       IN  IF l = <<>> THEN KeptTokens(Tail(ls))
           ELSE IF l = <<Backslash, Hash>> THEN <<(<<Hash>>)>> \o KeptTokens(Tail(ls))
           ELSE IF l[1] = Hash THEN KeptTokens(Tail(ls))
           ELSE <<l>> \o KeptTokens(Tail(ls))

\* the UTF-8 encoding of a codepoint below U+10000
Utf8Of(cp) ==
  IF cp < 128 THEN <<cp>>
  ELSE IF cp < 2048 THEN <<192 + (cp \div 64), 128 + (cp % 64)>>
  ELSE <<224 + (cp \div 4096), 128 + ((cp \div 64) % 64), 128 + (cp % 64)>>

\* the whitespace codepoints of the config format
WhitespaceCodepoints ==
  (9..13) \cup {32, 133, 160, 5760} \cup (8192..8202) \cup {8232, 8233, 8239, 8287, 12288}

WhitespaceTokens == {Utf8Of(cp) : cp \in WhitespaceCodepoints}

\* the lines a reader of the three conventions yields for a file
ExpectedLines(c) ==
  IF c.lines # <<>> /\ ~c.lastTerminated /\ c.lines[Len(c.lines)] = <<>>
    THEN SubSeq(c.lines, 1, Len(c.lines) - 1)
  ELSE c.lines

RECURSIVE IsComposed(_, _)
IsComposed(text, S) ==
  \/ text = <<>>
  \/ \E t \in S :
       /\ t # <<>> /\ Len(t) <= Len(text) /\ SubSeq(text, 1, Len(t)) = t
       /\ IsComposed(SubSeq(text, Len(t) + 1, Len(text)), S)

Bijection(a) ==
  /\ \A l \in DOMAIN a.label_to_str_ :
       /\ EncodeSingle(a, a.label_to_str_[l]) = [aborted |-> FALSE, label |-> l]
       /\ DecodeSingle(a, l) = [aborted |-> FALSE, str |-> a.label_to_str_[l]]
  /\ \A t \in DOMAIN a.str_to_label_ :
       /\ a.str_to_label_[t] \in DOMAIN a.label_to_str_
       /\ a.label_to_str_[a.str_to_label_[t]] = t

(***************************************************************************)
(* The properties.                                                         *)
(***************************************************************************)

\* C1: Round trip.  When Deserialize is given, on a newly created table, all
\* the bytes Serialize returned for a table T built by init, it succeeds and
\* the new table has T's size, T's space_label and T's token for every label
\* of T.
C1_RoundTrip ==
  (call.op = "Deserialize" /\ tstate = "built" /\ wire.buffer_size = Len(wire.buf))
    => /\ dstate = "ok"
       /\ D.size_ = T.size_
       /\ D.space_label_ = T.space_label_
       /\ \A l \in DOMAIN T.label_to_str_ :
            l \in DOMAIN D.label_to_str_ /\ D.label_to_str_[l] = T.label_to_str_[l]

\* C2: Bijection.  In every table a successful init or a successful
\* Deserialize produced, EncodeSingle and DecodeSingle are mutual inverses on
\* the stored pairs and neither map has an entry without its counterpart.
C2_Bijection ==
  /\ tstate = "built" => Bijection(T)
  /\ dstate = "ok" => Bijection(D)

\* C3: Buffer bounds.  Deserialize never reads a byte at an index >=
\* buffer_size, and on a buffer cut before its declared content ends it
\* returns failure.
C3_BufferBounds ==
  call.op = "Deserialize"
    => /\ ~wire.oob
       /\ wire.buffer_size < wire.declared => (call.ret # 0 /\ dstate = "failed")

\* a serialization of an init-built table cut inside the bytes of a token
C3_Witness ==
  /\ call.op = "Deserialize" /\ tstate = "built"
  /\ wire.buffer_size = Len(wire.buf) - 1
  /\ wire.buffer_size > 3 * SizeofU16
  /\ call.ret = 1

\* C4: Encode/decode inverse.  For a text composed only of tokens of the
\* table, Encode completes without abort and Decode of its result is the
\* text.
C4_EncodeDecodeInverse ==
  /\ (call.op = "Encode" /\ IsComposed(call.text, DOMAIN Table(call.obj).str_to_label_))
       => ~call.aborted
  /\ (call.op = "Decode" /\ call.inverts = "Encode"
        /\ IsComposed(call.text, DOMAIN Table(call.obj).str_to_label_))
       => (~call.aborted /\ call.word = call.text)

\* C5: Byte-alphabet universality.  UTF8Alphabet's CanEncodeSingle and
\* CanEncode are true of any bytes, and its Encode returns one label per
\* byte of the text, the EncodeSingle of that byte.
C5_ByteUniversality ==
  /\ call.op = "UTF8CanEncode" => call.can
  /\ call.op = "UTF8Encode"
       => /\ ~call.aborted
          /\ Len(call.labels) = Len(call.text)
          /\ \A i \in DOMAIN call.text :
               EncodeSingle(Table(call.obj), <<call.text[i]>>)
                 = [aborted |-> FALSE, label |-> call.labels[i]]

\* C6: Config construction.  init gives the labels 0, 1, 2, ... in line order
\* to exactly the lines that are neither empty nor comments (\# standing for
\* the token #), each with its text as token, and size is their number.
C6_ConfigConstruction ==
  InitReturned
    => LET kept == KeptTokens(cfg.lines)
       IN  /\ T.size_ = Len(kept)
           /\ T.label_to_str_ = [l \in 0..(Len(kept) - 1) |-> kept[l + 1]]
           /\ \A l \in 0..(Len(kept) - 1) : kept[l + 1] \in DOMAIN T.str_to_label_

\* a comment consumes no label and \# gives the token #
C6_Witness ==
  /\ InitReturned
  /\ cfg.lines = << <<Hash, 97>>, <<Backslash, Hash>> >>
  /\ T.size_ = 1
  /\ T.label_to_str_[0] = <<Hash>>

\* C7: Newline equivalence.  The same lines terminated by \n, by \r or by
\* \r\n give the same table, and the line reader yields the same lines for
\* the three (a \r\n is one terminator).
C7_NewlineEquivalence ==
  InitReturned
    => \A nl \in Newlines, u \in Indeterminate :
         LET r == Alphabet_init(NewAlphabet(u), FileContent([cfg EXCEPT !.nl = nl]))
         IN  r.a = T /\ r.lines = lines

\* a two-line file terminated by \r\n, both lines kept
C7_Witness ==
  /\ InitReturned
  /\ cfg.nl = "CRLF" /\ cfg.lastTerminated
  /\ Len(cfg.lines) = 2
  /\ T.size_ = 2

\* C8: Line reader end of stream.  The calls that return a true stream yield
\* the file's lines and nothing more: no line after a final terminator, one
\* line for unterminated trailing data, no empty line before exhaustion.
C8_LineReaderEnd ==
  InitReturned => lines = ExpectedLines(cfg)

\* C9: Whitespace detection.  After init, space_label is the sentinel -2,
\* which is no assigned label, when no line is a single whitespace codepoint;
\* otherwise it is the label of such a line (the last one), and the token
\* stored under it is that whitespace codepoint.
C9_WhitespaceDetection ==
  InitReturned
    => LET kept == KeptTokens(cfg.lines)
           ws == {l \in 0..(Len(kept) - 1) : kept[l + 1] \in WhitespaceTokens}
       IN  IF ws = {}
             THEN /\ T.space_label_ = SpaceSentinel
                  /\ SpaceSentinel \notin DOMAIN T.label_to_str_
           ELSE /\ T.space_label_ \in ws
                /\ \A l \in ws : l <= T.space_label_
                /\ T.label_to_str_[T.space_label_] = kept[T.space_label_ + 1]
                /\ T.label_to_str_[T.space_label_] \in WhitespaceTokens

\* a two-byte whitespace codepoint (U+00A0) after an ordinary line
C9_Witness ==
  /\ InitReturned
  /\ cfg.lines = << <<97>>, <<194, 160>> >>
  /\ T.space_label_ = 1

====
